---- MODULE Spec2Model ----
(***************************************************************************)
(* GroupMe-Discord bridge (src/index.js, lines 1-475): the webhook handler *)
(* handleGroupMeWebhook with its reply-context resolution                  *)
(* (findReplyContext, detectReplyFromText, getGroupMeMessages), the two    *)
(* delivery functions and the HTTP boundary that calls the handler.        *)
(*                                                                         *)
(* JavaScript values are represented as follows.                           *)
(*   - a string is a sequence of one-character strings;                    *)
(*   - a value that may be undefined/null is None (<<>>) or Some(v)        *)
(*     (<<v>>);                                                            *)
(*   - identifiers (id, user_id, reply_id) are TLA+ strings, the string    *)
(*     "undefined" standing for a missing property;                        *)
(*   - an array is a sequence.                                             *)
(* Every synchronous stretch of a handler between two await points is one  *)
(* action (run to completion); a network call is a request in flight in    *)
(* net[r] that the remote side answers in a separate step.                 *)
(*                                                                         *)
(* src/index.js holds a second, older copy of the application from line    *)
(* 476 on, without reply context; all line numbers refer to the first      *)
(* copy. DISCORD_WEBHOOK_URL is taken to be a valid URL, so new URL(...)   *)
(* at lines 184 and 241 does not throw. The answers of the remote history  *)
(* API are not constrained: the source does not check them.                *)
(***************************************************************************)
EXTENDS Integers, Sequences, FiniteSets, TLC

None == <<>>
Some(v) == <<v>>
Undefined == "undefined"

Min(S) == CHOOSE x \in S : \A y \in S : x <= y
Max(S) == CHOOSE x \in S : \A y \in S : y <= x

(***************************************************************************)
(* String primitives of the JavaScript runtime used by the source.         *)
(***************************************************************************)
\* Upper-case letters of the model's alphabet and their lower-case forms.
LowerOf == [A |-> "a", B |-> "b", H |-> "h"]

\* Characters matched by \w, by \s, and line terminators (not matched by .).
WordChars == {"a", "b", "h", "i", "l", "o", "y", "A", "B", "H", "_", "0"}
WhiteSpace == {" ", "\n"}
LineTerminators == {"\n"}

\* String.prototype.toLowerCase
toLowerCase(s) ==
  [i \in 1..Len(s) |-> IF s[i] \in DOMAIN LowerOf THEN LowerOf[s[i]] ELSE s[i]]

\* String.prototype.includes
includes(s, sub) ==
  \E i \in 0..(Len(s) - Len(sub)) : SubSeq(s, i + 1, i + Len(sub)) = sub

\* Array.prototype.find: the first element satisfying P, or undefined.
find(arr, P(_)) ==
  LET hits == {i \in 1..Len(arr) : P(arr[i])}
  IN IF hits = {} THEN None ELSE Some(arr[Min(hits)])

\* Positions at which ^ matches under the m flag.
LineStarts(s) ==
  {p \in 1..Len(s) : p = 1 \/ s[p - 1] \in LineTerminators}

\* Last position of the line that holds position p (p itself not a terminator).
LineEnd(s, p) ==
  Max({e \in p..Len(s) : \A k \in p..e : s[k] \notin LineTerminators})

\* text.match(/@(\w+)/): capture group 1 of the leftmost match, or None.
MentionMatch(s) ==
  LET at == {p \in 1..(Len(s) - 1) : s[p] = "@" /\ s[p + 1] \in WordChars}
  IN IF at = {} THEN None
     ELSE LET p == Min(at)
              e == Max({k \in (p + 1)..Len(s) :
                          \A j \in (p + 1)..k : s[j] \in WordChars})
          IN Some(SubSeq(s, p + 1, e))

\* text.match(/^>\s*(.+)/m): capture group 1 of the leftmost match, or None.
\* \s* is greedy and may run across line ends; it gives characters back
\* until (.+) finds one character that is not a line terminator.
QuoteCaptureStart(s, p) ==
  LET run == {k \in (p + 1)..(Len(s) + 1) :
                \A j \in (p + 1)..(k - 1) : s[j] \in WhiteSpace}
      ok == {k \in run : k <= Len(s) /\ s[k] \notin LineTerminators}
  IN IF ok = {} THEN 0 ELSE Max(ok)

QuoteMatch(s) ==
  LET starts == {p \in LineStarts(s) : s[p] = ">" /\ QuoteCaptureStart(s, p) > 0}
  IN IF starts = {} THEN None
     ELSE LET c == QuoteCaptureStart(s, Min(starts))
          IN Some(SubSeq(s, c, LineEnd(s, c)))

\* text.match(/^(.+):\s*$/m): capture group 1 of the leftmost match, or None.
\* (.+) is greedy: the last colon of the line that is followed by white
\* space only and preceded by at least one character ends the capture.
ColonPositions(s, p) ==
  IF s[p] \in LineTerminators THEN {}
  ELSE LET e == LineEnd(s, p)
       IN {c \in (p + 1)..e :
             s[c] = ":" /\ \A j \in (c + 1)..e : s[j] \in WhiteSpace}

ColonMatch(s) ==
  LET starts == {p \in LineStarts(s) : ColonPositions(s, p) # {}}
  IN IF starts = {} THEN None
     ELSE LET p == Min(starts)
          IN Some(SubSeq(s, p, Max(ColonPositions(s, p)) - 1))

\* Truthiness of an optional string: undefined, null and "" are falsy.
TruthyString(o) == o # None /\ o[1] # <<>>


(***************************************************************************)
(* Inputs: the payloads GroupMe may post and the answers the remote sides  *)
(* may give.                                                               *)
(***************************************************************************)
MaxWindow == 2
MaxFav == 2

Ids == {"1", "2", "3"}
UserIds == {"u1", "u2"}

\* Identifiers only matter up to equality, and the entries of a window
\* range over all of Ids and UserIds: one id and one author for the
\* inbound message cover every relation between a message and an entry.
InboundIds == {"3"}
InboundUserIds == {"u1"}

NoTextContent == <<"[No text content]">>
UnknownUser == <<"Unknown User">>
GroupMeUser == <<"GroupMe User">>
Someone == "Someone"

SeqsUpTo(S, n) == UNION {[1..k -> S] : k \in 0..n}

\* Display name and text of the entries of a history window.
Profiles ==
  { [name |-> Some(<<"A", "l">>), text |-> Some(<<"y", "o">>)],
    [name |-> Some(<<"B", "o">>), text |-> Some(<<"H", "i">>)] }

\* A record of the history without name and text (a system message).
BareEntry == [id |-> "1", user_id |-> "u2", name |-> None, text |-> None]

Entries ==
  { [id |-> i, user_id |-> u, name |-> p.name, text |-> p.text] :
      i \in Ids, u \in UserIds, p \in Profiles } \cup {BareEntry}

Windows == SeqsUpTo(Entries, MaxWindow)

Texts ==
  { None,
    Some(<<>>),
    Some(<<"h", "i">>),
    Some(<<"@", "A", "l">>),
    Some(<<">", "H", "i">>),
    Some(<<"y", "o", ":">>),
    Some(<<"@", "a", "l", "\n", ">", "h", "i">>),
    Some(<<">", "h", "i", "\n", "y", "o", ":">>),
    Some(<<"@", "h", "\n", ">", "\n", "y", "o", ":", " ">>) }

ImageAtt == [type |-> "image", reply_id |-> Undefined, base_reply_id |-> Undefined]
ReplyAtt(r, b) == [type |-> "reply", reply_id |-> r, base_reply_id |-> b]

AttachmentLists ==
  { None,
    Some(<<>>),
    Some(<<ImageAtt>>),
    Some(<<ReplyAtt("1", "2")>>),
    Some(<<ReplyAtt("2", Undefined)>>),
    Some(<<ReplyAtt("3", "1")>>),
    Some(<<ImageAtt, ReplyAtt("2", "1")>>),
    Some(<<ReplyAtt("1", "1"), ReplyAtt("2", "3")>>) }

Reactors ==
  { [emoji |-> Some("heart"), nickname |-> Some("Ann")],
    [emoji |-> None, nickname |-> None] }

FavoritedLists == {None} \cup {Some(f) : f \in SeqsUpTo(Reactors, MaxFav)}

Payloads ==
  { [sender_type |-> st, id |-> i, group_id |-> "g", user_id |-> u,
     name |-> Some(<<"M", "e">>), text |-> t, attachments |-> a,
     favorited_by |-> f] :
      st \in {"user", "bot"}, i \in InboundIds, u \in InboundUserIds, t \in Texts,
      a \in AttachmentLists, f \in FavoritedLists }

\* What makeRequest settles with: a rejection (error) or a resolved
\* {statusCode, body}. A 200 body of the history API is unparseable, lacks
\* response, lacks response.messages, or carries a messages array.
NoBody == [shape |-> "empty", messages |-> <<>>]
NetError == [error |-> TRUE, statusCode |-> 0, body |-> NoBody]
Status(code) == [error |-> FALSE, statusCode |-> code, body |-> NoBody]
Ok200(shape, msgs) ==
  [error |-> FALSE, statusCode |-> 200, body |-> [shape |-> shape, messages |-> msgs]]

\* A messages array with one entry more than the smaller of the two limits
\* the bridge asks for (lines 103 and 345): the remote service, not the
\* bridge, decides how many entries a response carries.
OversizedWindow == [i \in 1..21 |-> BareEntry]

HistoryResponses ==
  {NetError, Status(304), Status(500)}
    \cup {Ok200(sh, <<>>) : sh \in {"unparseable", "no_response", "no_messages"}}
    \cup {Ok200("messages", w) : w \in Windows}
    \cup {Ok200("messages", OversizedWindow)}

DiscordResponses == {NetError, Status(204), Status(300), Status(500)}


(***************************************************************************)
(* getGroupMeMessages: what the function returns for a settled request.    *)
(* The value is an array ([defined |-> TRUE, items |-> ...]) or undefined. *)
(***************************************************************************)
StructuredLimit == 50
RecentLimit == 20

JsArray(items) == [defined |-> TRUE, items |-> items]
JsUndefined == [defined |-> FALSE, items |-> <<>>]

\* A history request that asks for the newest entries instead of those
\* before the message.
HistoryRequestNoCursor(groupId, beforeId, limit) ==
  [to |-> "groupme", groupId |-> groupId, beforeId |-> Undefined,
   limit |-> limit, payload |-> None]

\* The path of the history request (lines 61-64) as its parameters.
HistoryRequest(groupId, beforeId, limit) ==
  [to |-> "groupme", groupId |-> groupId, beforeId |-> beforeId,
   limit |-> limit, payload |-> None]

\* Lines 77-87: a rejection, a non-200 status, an unparseable body and a
\* body without response (TypeError inside the try) give []; a 200 body
\* gives data.response.messages as it is, undefined when the property is
\* missing.
getGroupMeMessages(resp) ==
  IF resp.error THEN JsArray(<<>>)
  ELSE IF resp.statusCode = 200
       THEN CASE resp.body.shape = "messages" -> JsArray(resp.body.messages)
              [] resp.body.shape = "no_messages" -> JsUndefined
              [] OTHER -> JsArray(<<>>)
       ELSE JsArray(<<>>)

(***************************************************************************)
(* findReplyContext                                                        *)
(***************************************************************************)
\* A lookup that takes the first attachment of any type for the reply.
AnyAttachment(att) == TRUE

\* Lines 93-97: message.attachments.find(att => att.type === 'reply'),
\* undefined when attachments is missing or empty.
IsReplyAttachment(att) == att.type = "reply"

ReplyAttachment(message) ==
  IF message.attachments = None \/ Len(message.attachments[1]) = 0
  THEN None
  ELSE find(message.attachments[1], IsReplyAttachment)

\* A lookup that compares with base_reply_id only.
MatchesBaseOnly(msg, replyAttachment) == msg.id = replyAttachment.base_reply_id

\* Lines 106-109: the predicate of messages.find.
MatchesReply(msg, replyAttachment) ==
  \/ msg.id = replyAttachment.reply_id
  \/ msg.id = replyAttachment.base_reply_id

\* Lines 106-111 on a fetched array.
RepliedMessage(messages, replyAttachment) ==
  LET P(msg) == MatchesReply(msg, replyAttachment)
  IN find(messages, P)

(***************************************************************************)
(* detectReplyFromText                                                     *)
(***************************************************************************)
\* Lines 124-129: the predicate of the mention scan.
MentionCandidate(msg, message, mentionedName) ==
  /\ TruthyString(msg.name)
  /\ includes(toLowerCase(msg.name[1]), mentionedName)
  /\ msg.id # message.id
  /\ msg.user_id # message.user_id

\* A scan that leaves out the author comparison.
QuoteCandidateAnyAuthor(msg, message, quotedText) ==
  /\ TruthyString(msg.text)
  /\ includes(toLowerCase(msg.text[1]), quotedText)
  /\ msg.id # message.id

\* Lines 148-153: the predicate of the quote and name-colon scans.
QuoteCandidate(msg, message, quotedText) ==
  /\ TruthyString(msg.text)
  /\ includes(toLowerCase(msg.text[1]), quotedText)
  /\ msg.id # message.id
  /\ msg.user_id # message.user_id

\* Lines 119-134.
MentionHit(message, recentMessages) ==
  LET mentionMatch == MentionMatch(message.text[1])
      P(msg) == MentionCandidate(msg, message, toLowerCase(mentionMatch[1]))
  IN IF mentionMatch = None THEN None ELSE find(recentMessages, P)

\* Lines 143-157, one turn of the loop for the match of one pattern.
PatternHit(message, recentMessages, match) ==
  LET P(msg) == QuoteCandidate(msg, message, toLowerCase(match[1]))
  IN IF match = None THEN None ELSE find(recentMessages, P)

\* A detector that tries the name-colon pattern before the quote pattern.
replyPatternsColonFirst(text) == <<ColonMatch(text), QuoteMatch(text)>>

\* Lines 137-140: the patterns in the order of the array.
replyPatterns(text) == <<QuoteMatch(text), ColonMatch(text)>>

\* Lines 142-161.
RECURSIVE PatternLoop(_, _, _)
PatternLoop(message, recentMessages, matches) ==
  IF matches = <<>> THEN None
  ELSE LET hit == PatternHit(message, recentMessages, Head(matches))
       IN IF hit # None THEN hit
          ELSE PatternLoop(message, recentMessages, Tail(matches))

detectReplyFromText(message, recentMessages) ==
  IF ~TruthyString(message.text) THEN None
  ELSE LET hit == MentionHit(message, recentMessages)
       IN IF hit # None THEN hit
          ELSE PatternLoop(message, recentMessages, replyPatterns(message.text[1]))

\* detectReplyFromText calls recentMessages.find as soon as one pattern
\* matches the text; on undefined that call is a TypeError.
DetectReadsWindow(message) ==
  /\ TruthyString(message.text)
  /\ \/ MentionMatch(message.text[1]) # None
     \/ QuoteMatch(message.text[1]) # None
     \/ ColonMatch(message.text[1]) # None

(***************************************************************************)
(* Delivery payloads                                                       *)
(***************************************************************************)
\* Lines 165-180: the table maps the bare heart to the heart with a
\* variation selector and every other listed glyph to itself; an unlisted
\* glyph passes through.
emojiMap == [heart |-> "heart_vs16", thumbsup |-> "thumbsup"]

convertReactionEmoji(groupmeEmoji) ==
  IF groupmeEmoji \in DOMAIN emojiMap THEN emojiMap[groupmeEmoji] ELSE groupmeEmoji

OrElse(o, default) == IF o = None THEN default ELSE o[1]
OrElseString(o, default) == IF TruthyString(o) THEN o[1] ELSE default

\* Lines 186-207. The previews are cut at 150 characters; every text of
\* the model is shorter.
MessagePayload(message, replyContext) ==
  [username |-> OrElseString(message.name, GroupMeUser),
   text |-> OrElseString(message.text, NoTextContent),
   reply |-> IF replyContext = None THEN None
             ELSE Some([author |-> OrElseString(replyContext[1].name, UnknownUser),
                        preview |-> OrElseString(replyContext[1].text, NoTextContent)])]

\* Lines 243-256.
ReactionPayload(reactionData, originalMessage) ==
  [username |-> <<"GroupMe Reactions">>,
   emoji |-> convertReactionEmoji(OrElse(reactionData.favorited_by.emoji, "heart_vs16")),
   reacterName |-> OrElse(reactionData.favorited_by.nickname, Someone),
   preview |-> OrElseString(originalMessage.text, NoTextContent)]

DiscordRequest(payload) ==
  [to |-> "discord", groupId |-> "", beforeId |-> "", limit |-> 0,
   payload |-> Some(payload)]


(***************************************************************************)
(* The server: request slots r, each running one handleGroupMeWebhook.     *)
(***************************************************************************)
Reqs == {1, 2}

VARIABLES
  GROUPME_ACCESS_TOKEN,  \* line 9: whether the token is configured
  pc,                    \* pc[r]: where the handler of slot r is suspended
  data,                  \* data[r]: the parsed body handed to the handler
  replyContext,          \* replyContext[r]: the local of lines 337-346
  net,                   \* net[r]: the makeRequest call the handler awaits
  calls,                 \* calls[r]: the calls and returns of the handler so far
  result,                \* result[r]: what handleGroupMeWebhook returned
  httpStatus,            \* httpStatus[r]: the status written by lines 424/446
  heard,                 \* heard[r]: the requests of the handler that settled, with their
                         \* answers; kept where concurrent events are specified (SpecPair)
  relay                  \* the two chats and the /discord route, where both directions
                         \* of the bridge are specified (SpecRelay)

vars == <<GROUPME_ACCESS_TOKEN, pc, data, replyContext, net, calls, result, httpStatus, heard, relay>>

Ev(name, limit, val) == [ev |-> name, limit |-> limit, val |-> val]
InFlight(req) == Some([req |-> req, resp |-> None])

\* A handler that takes another sender class for the bridge's own posts.
IsBotSystemOnly(d) == d.sender_type = "system"

\* Line 312.
IsBot(d) == d.sender_type = "bot"

\* A handler that takes a payload for a reaction from the second reactor on.
IsReactionFromSecond(d) == d.favorited_by # None /\ Len(d.favorited_by[1]) > 1

\* Line 318.
IsReaction(d) == d.favorited_by # None /\ Len(d.favorited_by[1]) > 0

\* A handler that reports the oldest reactor.
OldestReaction(d) == d.favorited_by[1][1]

\* Line 322.
LatestReaction(d) == d.favorited_by[1][Len(d.favorited_by[1])]

\* Lines 325-329.
ReactionData(d) ==
  [favorited_by |-> LatestReaction(d), message_id |-> d.id, group_id |-> d.group_id]

\* A handler that resolves reply context whether or not the token is set.
TokenIgnored == TRUE

\* Line 339.
TokenConfigured == GROUPME_ACCESS_TOKEN

\* A handler that runs the heuristic step after every structured lookup.
HeuristicAlways(ctx) == TRUE

\* A bridge that runs the heuristic step once, for the first event that
\* needs it.
HeuristicOnce(ctx) ==
  /\ ctx = None
  /\ \A q \in Reqs : \A i \in DOMAIN calls[q] : calls[q][i].ev # "detectReplyFromText"

\* A handler that never runs the heuristic step.
HeuristicNever(ctx) == FALSE

\* Line 344: the entries of a window are objects, so only null/undefined
\* is falsy.
NeedsHeuristic(ctx) == ctx = None

\* A handler that reports an ignored bot message as a failure.
IgnoredResultFailed == [success |-> FALSE, ignored |-> TRUE]

\* Line 314.
IgnoredResult == [success |-> TRUE, ignored |-> TRUE]

\* A handler that reports a reply for every message.
HasReplyAlways(ctx) == TRUE

\* Line 358: !!replyContext.
HasReply(ctx) == ctx # None

\* A delivery that takes every answer of the webhook for a success.
DeliverySuccessAnyStatus(resp) == ~resp.error

\* Success of a delivery, lines 229-236 and 270-277.
DeliverySuccess(resp) == ~resp.error /\ resp.statusCode < 300

\* The people who write a message in one of the two chats.
MaxHumans == 2
Humans == 1..MaxHumans

\* Nobody has written and nothing is on its way.
RelayInit ==
  [from |-> [o \in Humans |-> "none"],
   posts |-> [o \in Humans |-> 0],
   callbacks |-> {},
   events |-> {},
   discord |-> None]

Init ==
  /\ GROUPME_ACCESS_TOKEN \in BOOLEAN
  /\ pc = [r \in Reqs |-> "idle"]
  /\ data = [r \in Reqs |-> None]
  /\ replyContext = [r \in Reqs |-> None]
  /\ net = [r \in Reqs |-> None]
  /\ calls = [r \in Reqs |-> <<>>]
  /\ result = [r \in Reqs |-> None]
  /\ httpStatus = [r \in Reqs |-> 0]
  /\ heard = [r \in Reqs |-> <<>>]
  /\ relay = RelayInit

\* Line 357 and sendToDiscord up to its await (lines 183-230).
Deliver(r, d, ctx, log) ==
  /\ pc' = [pc EXCEPT ![r] = "deliver"]
  /\ net' = [net EXCEPT ![r] = InFlight(DiscordRequest(MessagePayload(d, ctx)))]
  /\ calls' = [calls EXCEPT ![r] = log \o <<Ev("sendToDiscord", 0, ctx)>>]

\* Lines 341-357 from the return of findReplyContext on.
AfterFindReplyContext(r, d, found, log) ==
  LET log2 == log \o <<Ev("findReplyContext.return", 0, found)>>
  IN /\ replyContext' = [replyContext EXCEPT ![r] = found]
     /\ IF NeedsHeuristic(found)
        THEN /\ pc' = [pc EXCEPT ![r] = "fetch20"]
             /\ net' = [net EXCEPT ![r] =
                          InFlight(HistoryRequest(d.group_id, d.id, RecentLimit))]
             /\ calls' = [calls EXCEPT ![r] =
                            log2 \o <<Ev("getGroupMeMessages", RecentLimit, None)>>]
        ELSE Deliver(r, d, found, log2)

\* POST /groupme (lines 417-423) and handleGroupMeWebhook up to its first
\* await on the network (lines 310-357).
Receive(r, d) ==
  /\ pc[r] = "idle"
  /\ data' = [data EXCEPT ![r] = Some(d)]
  /\ UNCHANGED <<GROUPME_ACCESS_TOKEN, httpStatus, heard>>
  /\ IF IsBot(d)
     THEN /\ pc' = [pc EXCEPT ![r] = "returned"]
          /\ result' = [result EXCEPT ![r] = Some(IgnoredResult)]
          /\ UNCHANGED <<replyContext, net, calls>>
     ELSE IF IsReaction(d)
     THEN /\ pc' = [pc EXCEPT ![r] = "react"]
          /\ net' = [net EXCEPT ![r] =
                       InFlight(DiscordRequest(ReactionPayload(ReactionData(d), d)))]
          /\ calls' = [calls EXCEPT ![r] =
                         <<Ev("sendReactionToDiscord", 0, Some(ReactionData(d).favorited_by))>>]
          /\ UNCHANGED <<replyContext, result>>
     ELSE IF TokenConfigured
     THEN /\ UNCHANGED result
          /\ IF ReplyAttachment(d) = None
             THEN AfterFindReplyContext(r, d, None, <<Ev("findReplyContext", 0, None)>>)
             ELSE /\ pc' = [pc EXCEPT ![r] = "fetch50"]
                  /\ net' = [net EXCEPT ![r] =
                               InFlight(HistoryRequest(d.group_id, d.id, StructuredLimit))]
                  /\ calls' = [calls EXCEPT ![r] =
                                 <<Ev("findReplyContext", 0, None),
                                   Ev("getGroupMeMessages", StructuredLimit, None)>>]
                  /\ replyContext' = [replyContext EXCEPT ![r] = None]
     ELSE /\ Deliver(r, d, None, <<>>)
          /\ replyContext' = [replyContext EXCEPT ![r] = None]
          /\ UNCHANGED result

\* Events are taken one at a time: the next body is read when no handler
\* is in flight.
Arrive(r) ==
  /\ \A q \in Reqs : pc[q] = "idle"
  /\ r = Min(Reqs)
  /\ \E d \in Payloads : Receive(r, d)
  /\ UNCHANGED relay

Awaiting(r, to) ==
  /\ net[r] # None
  /\ net[r][1].req.to = to
  /\ net[r][1].resp = None

Settle(r, resp) ==
  /\ net' = [net EXCEPT ![r] = Some([req |-> net[r][1].req, resp |-> Some(resp)])]
  /\ UNCHANGED <<GROUPME_ACCESS_TOKEN, pc, data, replyContext, calls, result, httpStatus, heard, relay>>

\* makeRequest (lines 13-31) settles for a history request.
HistoryResponds(r) ==
  /\ Awaiting(r, "groupme")
  /\ \E resp \in HistoryResponses : Settle(r, resp)

\* makeRequest settles for a webhook post.
DiscordResponds(r) ==
  /\ Awaiting(r, "discord")
  /\ \E resp \in DiscordResponses : Settle(r, resp)

Settled(r) == net[r] # None /\ net[r][1].resp # None

\* A TypeError leaves handleGroupMeWebhook: the promise the server awaits
\* at line 423 rejects.
Throw(r, log) ==
  /\ pc' = [pc EXCEPT ![r] = "threw"]
  /\ net' = [net EXCEPT ![r] = None]
  /\ calls' = [calls EXCEPT ![r] = log]
  /\ UNCHANGED <<replyContext, result>>

\* getGroupMeMessages returns into findReplyContext (lines 103-111), which
\* returns into the handler (lines 341-357).
FindReplyContextResumes(r) ==
  /\ pc[r] = "fetch50"
  /\ Settled(r)
  /\ UNCHANGED <<GROUPME_ACCESS_TOKEN, data, httpStatus, heard, relay>>
  /\ LET d == data[r][1]
         messages == getGroupMeMessages(net[r][1].resp[1])
     IN IF ~messages.defined
        THEN Throw(r, calls[r])
        ELSE /\ AfterFindReplyContext(r, d,
                  RepliedMessage(messages.items, ReplyAttachment(d)[1]), calls[r])
             /\ UNCHANGED result

\* getGroupMeMessages returns into the handler at line 345, which runs
\* detectReplyFromText and goes on to sendToDiscord (lines 346-357).
DetectResumes(r) ==
  /\ pc[r] = "fetch20"
  /\ Settled(r)
  /\ UNCHANGED <<GROUPME_ACCESS_TOKEN, data, httpStatus, heard, relay>>
  /\ LET d == data[r][1]
         recentMessages == getGroupMeMessages(net[r][1].resp[1])
         log == calls[r] \o <<Ev("detectReplyFromText", 0, None)>>
     IN IF ~recentMessages.defined /\ DetectReadsWindow(d)
        THEN Throw(r, log)
        ELSE LET ctx == detectReplyFromText(d, recentMessages.items)
             IN /\ replyContext' = [replyContext EXCEPT ![r] = ctx]
                /\ Deliver(r, d, ctx, log \o <<Ev("detectReplyFromText.return", 0, ctx)>>)
                /\ UNCHANGED result

\* sendToDiscord returns (lines 229-236) and the handler returns (line 358).
SendToDiscordResumes(r) ==
  /\ pc[r] = "deliver"
  /\ Settled(r)
  /\ pc' = [pc EXCEPT ![r] = "returned"]
  /\ result' = [result EXCEPT ![r] =
                  Some([success |-> DeliverySuccess(net[r][1].resp[1]),
                        type |-> "message",
                        hasReply |-> HasReply(replyContext[r])])]
  /\ net' = [net EXCEPT ![r] = None]
  /\ UNCHANGED <<GROUPME_ACCESS_TOKEN, data, replyContext, calls, httpStatus, heard, relay>>

\* sendReactionToDiscord returns (lines 270-277) and the handler returns
\* (line 333).
SendReactionResumes(r) ==
  /\ pc[r] = "react"
  /\ Settled(r)
  /\ pc' = [pc EXCEPT ![r] = "returned"]
  /\ result' = [result EXCEPT ![r] =
                  Some([success |-> DeliverySuccess(net[r][1].resp[1]),
                        type |-> "reaction"])]
  /\ net' = [net EXCEPT ![r] = None]
  /\ UNCHANGED <<GROUPME_ACCESS_TOKEN, data, replyContext, calls, httpStatus, heard, relay>>

\* Lines 424-425, and lines 444-447 when the handler threw.
Respond(r) ==
  /\ pc[r] \in {"returned", "threw"}
  /\ pc' = [pc EXCEPT ![r] = "responded"]
  /\ httpStatus' = [httpStatus EXCEPT ![r] =
                      IF pc[r] = "returned" /\ result[r][1].success THEN 200 ELSE 500]
  /\ UNCHANGED <<GROUPME_ACCESS_TOKEN, data, replyContext, net, calls, result, heard, relay>>

\* The exchange is over; nothing of it is kept.
Close(r) ==
  /\ pc[r] = "responded"
  /\ pc' = [pc EXCEPT ![r] = "idle"]
  /\ data' = [data EXCEPT ![r] = None]
  /\ replyContext' = [replyContext EXCEPT ![r] = None]
  /\ calls' = [calls EXCEPT ![r] = <<>>]
  /\ result' = [result EXCEPT ![r] = None]
  /\ httpStatus' = [httpStatus EXCEPT ![r] = 0]
  /\ heard' = [heard EXCEPT ![r] = <<>>]
  /\ UNCHANGED <<GROUPME_ACCESS_TOKEN, net, relay>>

Next ==
  \E r \in Reqs :
    \/ Arrive(r)
    \/ HistoryResponds(r)
    \/ DiscordResponds(r)
    \/ FindReplyContextResumes(r)
    \/ DetectResumes(r)
    \/ SendToDiscordResumes(r)
    \/ SendReactionResumes(r)
    \/ Respond(r)
    \/ Close(r)

Spec == Init /\ [][Next]_vars

(***************************************************************************)
(* Concurrent events. The server starts a handler for every POST /groupme  *)
(* as its body ends (lines 414-423) and a handler gives way at each await, *)
(* so the handlers of several events interleave at their requests. Every   *)
(* handler keeps what its own requests were answered.                      *)
(***************************************************************************)
PairEntry ==
  [id |-> "1", user_id |-> "u2", name |-> Some(<<"A", "l">>), text |-> Some(<<"y", "o">>)]

PairPayloads ==
  { d \in Payloads :
      /\ d.favorited_by \in {None, Some(<<[emoji |-> Some("heart"), nickname |-> Some("Ann")]>>)}
      /\ d.attachments \in {None, Some(<<ReplyAtt("1", "2")>>)}
      /\ d.text \in {Some(<<"h", "i">>), Some(<<"@", "A", "l">>)}
      /\ (d.sender_type = "bot" \/ d.favorited_by # None) =>
           d.attachments = None /\ d.text = Some(<<"h", "i">>)
      /\ d.sender_type = "bot" => d.favorited_by = None }

PairHistoryResponses ==
  {NetError, Ok200("no_messages", <<>>), Ok200("messages", <<>>),
   Ok200("messages", <<PairEntry>>)}

PairDiscordResponses == {Status(204), Status(500)}

\* A service whose answer reaches every handler that awaits it.
SettleShared(r, resp) ==
  /\ net' = [q \in Reqs |->
               IF net[q] # None /\ net[q][1].resp = None
                  /\ net[q][1].req.to = net[r][1].req.to
               THEN Some([req |-> net[q][1].req, resp |-> Some(resp)])
               ELSE net[q]]
  /\ heard' = [heard EXCEPT ![r] = Append(@, [req |-> net[r][1].req, resp |-> resp])]
  /\ UNCHANGED <<GROUPME_ACCESS_TOKEN, pc, data, replyContext, calls, result, httpStatus, relay>>

\* The promise of makeRequest settles for the handler that made the
\* request (lines 13-31).
SettleHeard(r, resp) ==
  /\ net' = [net EXCEPT ![r] = Some([req |-> net[r][1].req, resp |-> Some(resp)])]
  /\ heard' = [heard EXCEPT ![r] = Append(@, [req |-> net[r][1].req, resp |-> resp])]
  /\ UNCHANGED <<GROUPME_ACCESS_TOKEN, pc, data, replyContext, calls, result, httpStatus, relay>>

\* A body ends while other handlers are in flight.
ArrivePair(r) == (\E d \in PairPayloads : Receive(r, d)) /\ UNCHANGED relay

HistoryRespondsPair(r) ==
  /\ Awaiting(r, "groupme")
  /\ \E resp \in PairHistoryResponses : SettleHeard(r, resp)

DiscordRespondsPair(r) ==
  /\ Awaiting(r, "discord")
  /\ \E resp \in PairDiscordResponses : SettleHeard(r, resp)

NextPair ==
  \E r \in Reqs :
    \/ ArrivePair(r)
    \/ HistoryRespondsPair(r)
    \/ DiscordRespondsPair(r)
    \/ FindReplyContextResumes(r)
    \/ DetectResumes(r)
    \/ SendToDiscordResumes(r)
    \/ SendReactionResumes(r)
    \/ Respond(r)
    \/ Close(r)

SpecPair == Init /\ [][NextPair]_vars

(***************************************************************************)
(* Progress. The continuation of an await runs once its promise has        *)
(* settled and 'end' handlers run to their end, so a handler that can go   *)
(* on does go on (lines 421-447); that every request made by makeRequest   *)
(* settles (lines 13-31) is the premise under which termination is asked.  *)
(***************************************************************************)
Continue(r) ==
  \/ FindReplyContextResumes(r)
  \/ DetectResumes(r)
  \/ SendToDiscordResumes(r)
  \/ SendReactionResumes(r)
  \/ Respond(r)
  \/ Close(r)

\* Arrivals over a reaction and a message with a reply attachment, which
\* between them take every await of the handler; answers as for
\* concurrent events.
LivePayloads ==
  { d \in PairPayloads :
      /\ d.sender_type = "user"
      /\ d.text = Some(<<"h", "i">>)
      /\ d.favorited_by = None <=> d.attachments # None }

ArriveLive(r) == (\E d \in LivePayloads : Receive(r, d)) /\ UNCHANGED relay

HistoryCompletes(r) ==
  /\ Awaiting(r, "groupme")
  /\ \E resp \in PairHistoryResponses : Settle(r, resp)

DiscordCompletes(r) ==
  /\ Awaiting(r, "discord")
  /\ \E resp \in PairDiscordResponses : Settle(r, resp)

Completes(r) == HistoryCompletes(r) \/ DiscordCompletes(r)

NextLive ==
  \E r \in Reqs :
    \/ ArriveLive(r)
    \/ HistoryCompletes(r)
    \/ DiscordCompletes(r)
    \/ FindReplyContextResumes(r)
    \/ DetectResumes(r)
    \/ SendToDiscordResumes(r)
    \/ SendReactionResumes(r)
    \/ Respond(r)
    \/ Close(r)

SpecLive ==
  /\ Init /\ [][NextLive]_vars
  /\ \A r \in Reqs : WF_vars(Continue(r)) /\ WF_vars(Completes(r))

(***************************************************************************)
(* The two directions. A message a person writes in the GroupMe group is   *)
(* called back to POST /groupme and one written in the Discord channel is  *)
(* posted to POST /discord (lines 427-438). What the bridge posts appears  *)
(* in the other chat as the post of the bot named by bot_id (lines 282-285)*)
(* or of the webhook (line 184), and that chat reports it like any other   *)
(* message: with sender_type 'bot', or with webhook_id and author.bot set. *)
(***************************************************************************)
HumanId(o) == ToString(o)
EchoId(o) == "e" \o ToString(o)

\* The person whose message a callback descends from.
OriginOf(d) == CHOOSE o \in Humans : d.id \in {HumanId(o), EchoId(o)}

\* What GroupMe calls back for a person's message: a plain message, a
\* message with a reply attachment, a message with a reactor.
RelayPayloads(o) ==
  { [d EXCEPT !.id = HumanId(o)] :
      d \in {b \in PairPayloads : b.sender_type = "user" /\ b.text = Some(<<"h", "i">>)} }

\* What GroupMe calls back for the post of the bridge's bot.
BotCallback(o) ==
  [sender_type |-> "bot", id |-> EchoId(o), group_id |-> "g", user_id |-> "b",
   name |-> Some(<<"B", "r">>), text |-> Some(<<"h", "i">>),
   attachments |-> Some(<<>>), favorited_by |-> Some(<<>>)]

\* The body posted to /discord for a person's message, with or without
\* author.
HumanEvents(o) ==
  { [origin |-> o, data |-> [webhook_id |-> None, author |-> a]] :
      a \in {None, Some([bot |-> FALSE])} }

\* The body posted to /discord for the post of the bridge's webhook.
WebhookEvent(o) ==
  [origin |-> o, data |-> [webhook_id |-> Some("w"), author |-> Some([bot |-> TRUE])]]

GroupMeBotResponses == {NetError, Status(202), Status(500)}

\* The chat took the post.
Accepted(resp) == ~resp.error /\ resp.statusCode < 300

\* A route that forwards every event.
IgnoresNothing(ev) == FALSE

\* Line 429.
IsWebhookOrBot(ev) ==
  \/ ev.webhook_id # None
  \/ (ev.author # None /\ ev.author[1].bot)

handlers == <<GROUPME_ACCESS_TOKEN, pc, data, replyContext, net, calls, result, httpStatus, heard>>

NextHuman == Min({o \in Humans : relay.from[o] = "none"})

HumanWritesOnGroupMe ==
  /\ \E o \in Humans : relay.from[o] = "none"
  /\ \E d \in RelayPayloads(NextHuman) :
       relay' = [relay EXCEPT !.from[NextHuman] = "groupme",
                              !.callbacks = @ \cup {d}]
  /\ UNCHANGED handlers

HumanWritesOnDiscord ==
  /\ \E o \in Humans : relay.from[o] = "none"
  /\ \E e \in HumanEvents(NextHuman) :
       relay' = [relay EXCEPT !.from[NextHuman] = "discord",
                              !.events = @ \cup {e}]
  /\ UNCHANGED handlers

\* POST /groupme with a callback of the group (lines 417-423).
GroupMeCalls(r) ==
  \E d \in relay.callbacks :
    /\ Receive(r, d)
    /\ relay' = [relay EXCEPT !.callbacks = @ \ {d}]

\* The webhook post of sendToDiscord or sendReactionToDiscord settles; a
\* post the channel took is a message of the webhook there.
DiscordAnswers(r) ==
  /\ Awaiting(r, "discord")
  /\ \E resp \in PairDiscordResponses :
       /\ net' = [net EXCEPT ![r] = Some([req |-> net[r][1].req, resp |-> Some(resp)])]
       /\ relay' = IF Accepted(resp)
                   THEN LET o == OriginOf(data[r][1])
                        IN [relay EXCEPT !.posts[o] = @ + 1,
                                         !.events = @ \cup {WebhookEvent(o)}]
                   ELSE relay
  /\ UNCHANGED <<GROUPME_ACCESS_TOKEN, pc, data, replyContext, calls, result, httpStatus, heard>>

\* POST /discord (lines 427-436): an event of a webhook or of a bot is
\* answered at once, any other is handed to sendToGroupMe, which posts it
\* as the bot (lines 281-298).
DiscordCalls ==
  /\ relay.discord = None
  /\ \E e \in relay.events :
       relay' = [relay EXCEPT
                   !.events = @ \ {e},
                   !.discord = IF IsWebhookOrBot(e.data) THEN None
                               ELSE Some([origin |-> e.origin, resp |-> None])]
  /\ UNCHANGED handlers

\* The bot post settles; a post the group took is a message of the bot
\* there.
GroupMeAnswers ==
  /\ relay.discord # None
  /\ relay.discord[1].resp = None
  /\ \E resp \in GroupMeBotResponses :
       LET o == relay.discord[1].origin
           settled == [relay EXCEPT !.discord = Some([origin |-> o, resp |-> Some(resp)])]
       IN relay' = IF Accepted(resp)
                   THEN [settled EXCEPT !.posts[o] = @ + 1,
                                        !.callbacks = @ \cup {BotCallback(o)}]
                   ELSE settled
  /\ UNCHANGED handlers

\* sendToGroupMe returns and the route writes its response (lines 299-306
\* and 437-438).
SendToGroupMeResumes ==
  /\ relay.discord # None
  /\ relay.discord[1].resp # None
  /\ relay' = [relay EXCEPT !.discord = None]
  /\ UNCHANGED handlers

NextRelay ==
  \/ HumanWritesOnGroupMe
  \/ HumanWritesOnDiscord
  \/ DiscordCalls
  \/ GroupMeAnswers
  \/ SendToGroupMeResumes
  \/ \E r \in Reqs :
       \/ GroupMeCalls(r)
       \/ HistoryCompletes(r)
       \/ DiscordAnswers(r)
       \/ FindReplyContextResumes(r)
       \/ DetectResumes(r)
       \/ SendToDiscordResumes(r)
       \/ SendReactionResumes(r)
       \/ Respond(r)
       \/ Close(r)

SpecRelay == Init /\ [][NextRelay]_vars

(***************************************************************************)
(* Properties                                                              *)
(***************************************************************************)
Active(r) == data[r] # None
Msg(r) == data[r][1]

EventsOf(r, name) == {i \in DOMAIN calls[r] : calls[r][i].ev = name}
Called(r, name) == EventsOf(r, name) # {}
Fetches(r, limit) ==
  {i \in EventsOf(r, "getGroupMeMessages") : calls[r][i].limit = limit}
Finished(r) == pc[r] \in {"returned", "responded"}

FromBot(d) == d.sender_type = "bot"
HasReactors(d) == d.favorited_by # None /\ d.favorited_by[1] # <<>>
PlainMessage(d) == ~FromBot(d) /\ ~HasReactors(d)
HasMention(d) == TruthyString(d.text) /\ MentionMatch(d.text[1]) # None
HasReplyAttachment(d) ==
  /\ d.attachments # None
  /\ \E i \in DOMAIN d.attachments[1] : d.attachments[1][i].type = "reply"

\* C1: a payload whose sender_type is 'bot' makes the handler return at
\* once: no call is made (no history fetch, no delivery), no request is in
\* flight, and the handler has returned.
C1_BotShortCircuit ==
  \A r \in Reqs :
    (Active(r) /\ FromBot(Msg(r))) =>
      /\ calls[r] = <<>>
      /\ net[r] = None
      /\ Finished(r)

C1_Witness ==
  \E r \in Reqs :
    /\ Active(r) /\ FromBot(Msg(r)) /\ pc[r] = "returned"
    /\ GROUPME_ACCESS_TOKEN
    /\ HasReactors(Msg(r)) /\ HasReplyAttachment(Msg(r)) /\ TruthyString(Msg(r).text)

\* C2: a non-bot payload with a non-empty favorited_by makes exactly one
\* call, sendReactionToDiscord, the only request ever in flight is that
\* webhook post, and the result has type 'reaction'.
C2_ReactionPrecedence ==
  \A r \in Reqs :
    (Active(r) /\ ~FromBot(Msg(r)) /\ HasReactors(Msg(r))) =>
      /\ Len(calls[r]) = 1
      /\ calls[r][1].ev = "sendReactionToDiscord"
      /\ net[r] # None => net[r][1].req.to = "discord"
      /\ Finished(r) => result[r][1].type = "reaction"

C2_Witness ==
  \E r \in Reqs :
    /\ Active(r) /\ ~FromBot(Msg(r)) /\ HasReactors(Msg(r))
    /\ GROUPME_ACCESS_TOKEN
    /\ HasReplyAttachment(Msg(r)) /\ HasMention(Msg(r))
    /\ pc[r] = "returned" /\ result[r][1].type = "reaction"

\* C3: once findReplyContext has returned an entry, the handler makes no
\* 20-entry fetch and no detectReplyFromText call, and it calls
\* sendToDiscord with exactly that entry.
C3_StructuredAuthoritative ==
  \A r \in Reqs :
    \A i \in EventsOf(r, "findReplyContext.return") :
      calls[r][i].val # None =>
        /\ Fetches(r, 20) = {}
        /\ ~Called(r, "detectReplyFromText")
        /\ EventsOf(r, "sendToDiscord") = {i + 1}
        /\ calls[r][i + 1].val = calls[r][i].val
        /\ replyContext[r] = calls[r][i].val

C3_Witness ==
  \E r \in Reqs :
    /\ pc[r] = "returned"
    /\ \E i \in EventsOf(r, "findReplyContext.return") : calls[r][i].val # None
    /\ HasMention(Msg(r))

\* C4: without the access token a non-bot, non-reaction message makes one
\* call, sendToDiscord with no reply context; no history request is ever in
\* flight and the result reports hasReply = false.
C4_CredentialGating ==
  ~GROUPME_ACCESS_TOKEN =>
    \A r \in Reqs :
      (Active(r) /\ PlainMessage(Msg(r))) =>
        /\ calls[r] = <<Ev("sendToDiscord", 0, None)>>
        /\ replyContext[r] = None
        /\ net[r] # None =>
             /\ net[r][1].req.to = "discord"
             /\ net[r][1].req.payload[1].reply = None
        /\ Finished(r) =>
             /\ result[r][1].type = "message"
             /\ result[r][1].hasReply = FALSE

C4_Witness ==
  \E r \in Reqs :
    /\ ~GROUPME_ACCESS_TOKEN
    /\ Active(r) /\ PlainMessage(Msg(r)) /\ HasReplyAttachment(Msg(r))
    /\ pc[r] = "returned" /\ result[r][1].hasReply = FALSE


\* The first attachment of type 'reply' of a message that has one.
FirstReplyAttachment(d) ==
  d.attachments[1][Min({i \in DOMAIN d.attachments[1] :
                          d.attachments[1][i].type = "reply"})]

\* The array a settled history request carries, when it carries one.
CarriesWindow(r) ==
  /\ Settled(r)
  /\ net[r][1].req.to = "groupme"
  /\ ~net[r][1].resp[1].error
  /\ net[r][1].resp[1].statusCode = 200
  /\ net[r][1].resp[1].body.shape = "messages"
Window(r) == net[r][1].resp[1].body.messages

\* C5: the reply context the handler holds never has the id of the
\* inbound message itself.
C5_NoSelfReply ==
  \A r \in Reqs :
    replyContext[r] # None => replyContext[r][1].id # Msg(r).id

\* C6: for every message and every window handed to it,
\* detectReplyFromText returns absent or an entry whose id and user_id both
\* differ from the message's; the same holds of every value the handler
\* got back from it.
C6_HeuristicSelfExclusion ==
  \A r \in Reqs :
    /\ (pc[r] = "fetch20" /\ CarriesWindow(r)) =>
         LET hit == detectReplyFromText(Msg(r), Window(r))
         IN hit # None =>
              /\ hit[1].id # Msg(r).id
              /\ hit[1].user_id # Msg(r).user_id
    /\ \A i \in EventsOf(r, "detectReplyFromText.return") :
         calls[r][i].val # None =>
           /\ calls[r][i].val[1].id # Msg(r).id
           /\ calls[r][i].val[1].user_id # Msg(r).user_id

\* A window whose first entry quotes the text but was written by the
\* message's author, followed by an entry of another author that is hit.
C6_Witness ==
  \E r \in Reqs :
    /\ pc[r] = "fetch20" /\ CarriesWindow(r) /\ Len(Window(r)) = 2
    /\ TruthyString(Msg(r).text)
    /\ MentionMatch(Msg(r).text[1]) = None
    /\ ColonMatch(Msg(r).text[1]) # None
    /\ Window(r)[1].user_id = Msg(r).user_id
    /\ Window(r)[1].text = Window(r)[2].text
    /\ detectReplyFromText(Msg(r), Window(r)) = Some(Window(r)[2])

\* C7: for a message whose attachments are missing, empty or without an
\* attachment of type 'reply', findReplyContext returns absent at once: its
\* return follows its call with no history fetch in between, and no
\* 50-entry fetch is ever made.
C7_NoReplyAttachmentNoFetch ==
  \A r \in Reqs :
    (Active(r) /\ ~HasReplyAttachment(Msg(r)) /\ Called(r, "findReplyContext")) =>
      /\ calls[r][1] = Ev("findReplyContext", 0, None)
      /\ calls[r][2] = Ev("findReplyContext.return", 0, None)
      /\ Fetches(r, 50) = {}
      /\ pc[r] # "fetch50"

C7_Witness ==
  \E r \in Reqs :
    /\ Active(r) /\ Msg(r).attachments = Some(<<ImageAtt>>)
    /\ Called(r, "findReplyContext.return")
    /\ pc[r] = "returned"

\* C8 as stated: whenever the fetched window holds an entry whose id is the
\* reply attachment's reply_id, findReplyContext returns an entry with that
\* id, whatever the order of the window and the value of base_reply_id.
C8_TargetEntryReturned ==
  [][\A r \in Reqs :
       (/\ pc[r] = "fetch50" /\ CarriesWindow(r) /\ pc'[r] # "fetch50"
        /\ \E i \in DOMAIN Window(r) :
             Window(r)[i].id = FirstReplyAttachment(Msg(r)).reply_id)
       => /\ replyContext'[r] # None
          /\ replyContext'[r][1].id = FirstReplyAttachment(Msg(r)).reply_id]_vars

\* C8 amended: findReplyContext returns the first entry of the fetched
\* window, in the window's order, whose id is the reply attachment's
\* reply_id or its base_reply_id, and absent when there is none; so the
\* reply_id entry is returned when no entry with one of the two ids
\* precedes it.
C8_FirstMatchReturned ==
  [][\A r \in Reqs :
       (pc[r] = "fetch50" /\ CarriesWindow(r) /\ pc'[r] # "fetch50") =>
         LET att == FirstReplyAttachment(Msg(r))
             hits == {i \in DOMAIN Window(r) :
                        Window(r)[i].id \in {att.reply_id, att.base_reply_id}}
         IN replyContext'[r] =
              IF hits = {} THEN None ELSE Some(Window(r)[Min(hits)])]_vars

\* findReplyContext has returned the entry whose id is reply_id although
\* base_reply_id names another id.
C8_Witness ==
  \E r \in Reqs :
    /\ Active(r) /\ HasReplyAttachment(Msg(r))
    /\ FirstReplyAttachment(Msg(r)).base_reply_id \in
         Ids \ {FirstReplyAttachment(Msg(r)).reply_id}
    /\ \E i \in EventsOf(r, "findReplyContext.return") :
         /\ calls[r][i].val # None
         /\ calls[r][i].val[1].id = FirstReplyAttachment(Msg(r)).reply_id

\* C9: for a non-bot payload with N >= 1 reactors the one reaction
\* notification is built from entry N of favorited_by (the last): the
\* reactor handed to sendReactionToDiscord is that entry, and the emoji and
\* name of the posted notification are that entry's.
C9_LatestReactionWins ==
  \A r \in Reqs :
    (Active(r) /\ ~FromBot(Msg(r)) /\ HasReactors(Msg(r))) =>
      LET fav == Msg(r).favorited_by[1]
          last == fav[Len(fav)]
      IN /\ calls[r] = <<Ev("sendReactionToDiscord", 0, Some(last))>>
         /\ net[r] # None =>
              /\ net[r][1].req.payload[1].reacterName =
                   (IF last.nickname = None THEN "Someone" ELSE last.nickname[1])
              /\ net[r][1].req.payload[1].emoji =
                   (IF last.emoji = None THEN "heart_vs16"
                    ELSE IF last.emoji[1] = "heart" THEN "heart_vs16"
                    ELSE last.emoji[1])

C9_Witness ==
  \E r \in Reqs :
    /\ Active(r) /\ ~FromBot(Msg(r)) /\ HasReactors(Msg(r))
    /\ Len(Msg(r).favorited_by[1]) >= 2
    /\ Msg(r).favorited_by[1][1] # Msg(r).favorited_by[1][Len(Msg(r).favorited_by[1])]
    /\ pc[r] = "react" /\ net[r] # None

\* C10: with the token configured, the handler of a non-bot, non-reaction
\* message never ends in an exception, whatever the history requests
\* settle with, and when it has returned it has called sendToDiscord and
\* its result has type 'message'.
C10_ResolutionNeverAborts ==
  \A r \in Reqs :
    (GROUPME_ACCESS_TOKEN /\ Active(r) /\ PlainMessage(Msg(r))) =>
      /\ pc[r] # "threw"
      /\ pc[r] = "returned" =>
           /\ Called(r, "sendToDiscord")
           /\ result[r][1].type = "message"


\* C11: when the webhook post of a delivery settles, with an error or with
\* any status, the handler returns a result (it does not throw) whose
\* success flag is true exactly when the post was answered with a status
\* below 300; and the status written for a returned result is 200 when
\* success is true and 500 otherwise.
C11_DeliveryFailureIsAFlag ==
  [][\A r \in Reqs :
       /\ (pc[r] \in {"deliver", "react"} /\ Settled(r) /\ pc'[r] # pc[r]) =>
            /\ pc'[r] = "returned"
            /\ result'[r] # None
            /\ result'[r][1].success =
                 (/\ ~net[r][1].resp[1].error
                  /\ net[r][1].resp[1].statusCode < 300)
       /\ (pc[r] = "returned" /\ pc'[r] = "responded") =>
            httpStatus'[r] = (IF result[r][1].success THEN 200 ELSE 500)]_vars

\* A message whose delivery was answered with status 300 has been answered
\* with 500.
C11_Witness ==
  \E r \in Reqs :
    /\ pc[r] = "responded" /\ result[r] # None
    /\ "type" \in DOMAIN result[r][1]
    /\ result[r][1].type = "message" /\ ~result[r][1].success
    /\ httpStatus[r] = 500

\* C12 as stated: the result returned for a bot-classified sender has its
\* success flag false.
C12_BotResultNotDelivered ==
  \A r \in Reqs :
    (Active(r) /\ FromBot(Msg(r)) /\ result[r] # None) => ~result[r][1].success

\* C12 amended: the result returned for a bot-classified sender is
\* {success: true, ignored: true}, with no type and no hasReply, and the
\* request is answered with status 200.
C12_BotResultIgnored ==
  \A r \in Reqs :
    (Active(r) /\ FromBot(Msg(r))) =>
      /\ result[r] # None
      /\ DOMAIN result[r][1] = {"success", "ignored"}
      /\ result[r][1].success
      /\ result[r][1].ignored
      /\ pc[r] = "responded" => httpStatus[r] = 200

C12_Witness ==
  \E r \in Reqs :
    /\ Active(r) /\ FromBot(Msg(r))
    /\ pc[r] = "responded" /\ httpStatus[r] = 200


HeuristicStepRun(r) == Fetches(r, 20) # {} \/ Called(r, "detectReplyFromText")
StructuredAbsent(r) ==
  \E i \in EventsOf(r, "findReplyContext.return") : calls[r][i].val = None

\* C13 as stated: the heuristic step (the 20-entry fetch, the call of
\* detectReplyFromText) is run only when findReplyContext returned absent
\* and the message has text.
C13_HeuristicOnlyWithText ==
  \A r \in Reqs :
    HeuristicStepRun(r) => StructuredAbsent(r) /\ TruthyString(Msg(r).text)

\* C13 amended: the heuristic step is run exactly when the token is
\* configured and findReplyContext returned absent, whether or not the
\* message has text: the 20-entry fetch is issued right after that return
\* and detectReplyFromText is called only after it; for a message without
\* text detectReplyFromText returns absent.
C13_HeuristicWhenStructuredAbsent ==
  \A r \in Reqs :
    /\ Active(r) =>
         (Fetches(r, 20) # {} <=>
            GROUPME_ACCESS_TOKEN /\ PlainMessage(Msg(r)) /\ StructuredAbsent(r))
    /\ \A i \in EventsOf(r, "findReplyContext.return") :
         calls[r][i].val = None =>
           calls[r][i + 1] = Ev("getGroupMeMessages", 20, None)
    /\ \A j \in EventsOf(r, "detectReplyFromText") :
         /\ j > 1
         /\ calls[r][j - 1] = Ev("getGroupMeMessages", 20, None)
    /\ \A j \in EventsOf(r, "detectReplyFromText.return") :
         ~TruthyString(Msg(r).text) => calls[r][j].val = None

\* A message without text for which the heuristic step has run.
C13_Witness ==
  \E r \in Reqs :
    /\ Active(r) /\ ~TruthyString(Msg(r).text)
    /\ Fetches(r, 20) # {}
    /\ Called(r, "detectReplyFromText.return")
    /\ pc[r] = "returned"

\* The first entry of a window that may answer a scan of the message:
\* another id, another author, and the wanted fragment in the lower-cased
\* field.
FirstEligible(w, d, field, fragment) ==
  LET ok == {i \in DOMAIN w :
               /\ TruthyString(w[i][field])
               /\ includes(toLowerCase(w[i][field][1]), toLowerCase(fragment))
               /\ w[i].id # d.id
               /\ w[i].user_id # d.user_id}
  IN IF ok = {} THEN None ELSE Some(w[Min(ok)])

\* C14: detectReplyFromText returns the first eligible entry of the
\* mention pattern if the text has a mention and an entry answers it;
\* otherwise that of the quote-line pattern; otherwise that of the
\* name-colon pattern; otherwise absent. A pattern that matches the text
\* without an eligible entry falls through, and within a pattern the first
\* eligible entry in the window's order is taken.
C14_PatternOrder ==
  [][\A r \in Reqs :
       (pc[r] = "fetch20" /\ CarriesWindow(r) /\ pc'[r] = "deliver") =>
         LET d == Msg(r)
             w == Window(r)
             byPattern(match, field) ==
               IF match = None THEN None ELSE FirstEligible(w, d, field, match[1])
             mention == byPattern(MentionMatch(d.text[1]), "name")
             quote == byPattern(QuoteMatch(d.text[1]), "text")
             colon == byPattern(ColonMatch(d.text[1]), "text")
         IN replyContext'[r] =
              IF ~TruthyString(d.text) THEN None
              ELSE IF mention # None THEN mention
              ELSE IF quote # None THEN quote
              ELSE colon]_vars

\* A text with a quote line and a name-colon line, and a window whose
\* first entry answers the name-colon pattern and whose second entry
\* answers the quote pattern: the second entry is returned.
C14_Witness ==
  \E r \in Reqs :
    /\ pc[r] = "fetch20" /\ CarriesWindow(r) /\ Len(Window(r)) = 2
    /\ TruthyString(Msg(r).text)
    /\ MentionMatch(Msg(r).text[1]) = None
    /\ QuoteMatch(Msg(r).text[1]) # None
    /\ ColonMatch(Msg(r).text[1]) # None
    /\ FirstEligible(Window(r), Msg(r), "text", ColonMatch(Msg(r).text[1])[1])
         = Some(Window(r)[1])
    /\ detectReplyFromText(Msg(r), Window(r)) = Some(Window(r)[2])


\* C18: a handler issues at most one 50-entry fetch and at most one
\* 20-entry fetch and no fetch of another size; the 50-entry fetch comes
\* before the 20-entry one; every history request in flight asks for the
\* entries before the message's id with the limit of the fetch last issued;
\* whatever a fetch answered (an error, a status, an empty window), it is
\* not issued again.
C18_BoundedFetching ==
  \A r \in Reqs :
    /\ Cardinality(Fetches(r, StructuredLimit)) <= 1
    /\ Cardinality(Fetches(r, RecentLimit)) <= 1
    /\ EventsOf(r, "getGroupMeMessages")
         = Fetches(r, StructuredLimit) \cup Fetches(r, RecentLimit)
    /\ \A i \in Fetches(r, StructuredLimit) : \A j \in Fetches(r, RecentLimit) : i < j
    /\ (net[r] # None /\ net[r][1].req.to = "groupme") =>
         /\ Active(r)
         /\ net[r][1].req.beforeId = Msg(r).id
         /\ net[r][1].req.groupId = Msg(r).group_id
         /\ EventsOf(r, "getGroupMeMessages") # {}
         /\ net[r][1].req.limit =
              calls[r][Max(EventsOf(r, "getGroupMeMessages"))].limit
         /\ pc[r] = (IF net[r][1].req.limit = StructuredLimit
                     THEN "fetch50" ELSE "fetch20")

\* Both fetches were issued and the second was answered with an empty
\* window.
C18_Witness ==
  \E r \in Reqs :
    /\ pc[r] = "fetch20" /\ Settled(r)
    /\ Fetches(r, StructuredLimit) # {} /\ Fetches(r, RecentLimit) # {}
    /\ CarriesWindow(r) /\ Window(r) = <<>>

Deliveries(r) == EventsOf(r, "sendToDiscord") \cup EventsOf(r, "sendReactionToDiscord")
Left(r) == pc[r] \in {"returned", "threw", "responded"}

\* C19: once the handler of a non-bot event is over it has made exactly
\* one delivery call, sendReactionToDiscord for a reaction and
\* sendToDiscord for a message, and that call is the last call of the
\* handler, after every history fetch and its return.
C19_ExactlyOneDelivery ==
  \A r \in Reqs :
    (Active(r) /\ ~FromBot(Msg(r))) =>
      /\ Cardinality(Deliveries(r)) <= 1
      /\ \A i \in Deliveries(r) :
           /\ i = Len(calls[r])
           /\ calls[r][i].ev =
                (IF HasReactors(Msg(r)) THEN "sendReactionToDiscord" ELSE "sendToDiscord")
      /\ Left(r) => Cardinality(Deliveries(r)) = 1

\* C20: the result of a message event has hasReply true exactly when the
\* reply context passed to sendToDiscord was not absent, and that context
\* is what the webhook post carries; the results of bot and reaction events
\* have no hasReply field.
C20_HasReplyMatchesDelivery ==
  \A r \in Reqs :
    /\ (pc[r] = "deliver" /\ net[r] # None) =>
         \A i \in EventsOf(r, "sendToDiscord") :
           (net[r][1].req.payload[1].reply # None) <=> (calls[r][i].val # None)
    /\ (Active(r) /\ result[r] # None) =>
         IF PlainMessage(Msg(r))
         THEN /\ result[r][1].type = "message"
              /\ Cardinality(EventsOf(r, "sendToDiscord")) = 1
              /\ \A i \in EventsOf(r, "sendToDiscord") :
                   result[r][1].hasReply = (calls[r][i].val # None)
         ELSE "hasReply" \notin DOMAIN result[r][1]

\* A message whose context came from the heuristic step and whose result
\* reports it.
C20_Witness ==
  \E r \in Reqs :
    /\ pc[r] = "returned" /\ PlainMessage(Msg(r))
    /\ Called(r, "detectReplyFromText.return")
    /\ result[r][1].hasReply
    /\ \E i \in EventsOf(r, "sendToDiscord") : calls[r][i].val # None


\* C17: for every response of the history API the value
\* getGroupMeMessages returns, when it is an array, has at most as many
\* entries as the limit of the request.
C17_WindowWithinLimit ==
  \A r \in Reqs :
    (Settled(r) /\ net[r][1].req.to = "groupme") =>
      LET messages == getGroupMeMessages(net[r][1].resp[1])
      IN messages.defined => Len(messages.items) <= net[r][1].req.limit


\* What a handler was answered by the history API, in the order of its
\* requests.
HistoryHeard(r) ==
  LET isHistory(h) == h.req.to = "groupme" IN SelectSeq(heard[r], isHistory)

\* Two handlers were answered from one frozen history: the same history
\* request never got two different answers.
SameSnapshot(r, q) ==
  \A i \in DOMAIN HistoryHeard(r) : \A j \in DOMAIN HistoryHeard(q) :
    HistoryHeard(r)[i].req = HistoryHeard(q)[j].req =>
      HistoryHeard(r)[i].resp = HistoryHeard(q)[j].resp

\* The flags of a result other than the outcome of the delivery.
ResultFlags(res) ==
  IF res = None THEN None
  ELSE Some([f \in DOMAIN res[1] \ {"success"} |-> res[1][f]])

\* C15: two handlers of the same payload that are over and were answered
\* from the same frozen history (under the one token configuration) made
\* the same calls, ended with the same reply context and returned the same
\* flags, whichever of them ran first and whatever the other one wrote.
C15_Deterministic ==
  \A r, q \in Reqs :
    (Left(r) /\ Left(q) /\ data[r] = data[q] /\ SameSnapshot(r, q)) =>
      /\ calls[r] = calls[q]
      /\ replyContext[r] = replyContext[q]
      /\ ResultFlags(result[r]) = ResultFlags(result[q])

\* The same message resolved twice against the same window, with a reply
\* context found, while the two deliveries ended differently.
C15_Witness ==
  \E r, q \in Reqs :
    /\ r # q /\ pc[r] = "responded" /\ pc[q] = "returned"
    /\ data[r] = data[q] /\ PlainMessage(Msg(r))
    /\ HistoryHeard(r) # <<>> /\ HistoryHeard(r) = HistoryHeard(q)
    /\ replyContext[r] # None /\ replyContext[q] = replyContext[r]
    /\ result[r][1].success # result[q][1].success

\* Everything the model keeps for one handler.
Slot(r) ==
  <<pc[r], data[r], replyContext[r], net[r], calls[r], result[r], httpStatus[r], heard[r]>>

\* The reply context of a payload as a function of the payload and of the
\* answers to the handler's own history requests.
OwnContext(d, h) ==
  IF ~GROUPME_ACCESS_TOKEN \/ ~PlainMessage(d) THEN None
  ELSE LET att == ReplyAttachment(d)
           structured ==
             IF att = None \/ h = <<>> THEN None
             ELSE RepliedMessage(getGroupMeMessages(h[1].resp).items, att[1])
           rest == IF att = None \/ h = <<>> THEN h ELSE Tail(h)
       IN IF structured # None THEN structured
          ELSE IF rest = <<>> THEN None
          ELSE detectReplyFromText(d, getGroupMeMessages(rest[1].resp).items)

\* The reply context, the webhook post and the result of a handler are
\* those its own payload and its own answers give.
OwnOutcome(r) ==
  (Active(r) /\ ~FromBot(Msg(r))) =>
    LET d == Msg(r)
        ctx == OwnContext(d, HistoryHeard(r))
    IN /\ (pc[r] = "deliver" \/ result[r] # None) => replyContext[r] = ctx
       /\ pc[r] = "deliver" =>
            net[r][1].req = DiscordRequest(MessagePayload(d, ctx))
       /\ pc[r] = "react" =>
            net[r][1].req = DiscordRequest(ReactionPayload(ReactionData(d), d))
       /\ result[r] # None =>
            /\ heard[r] # <<>>
            /\ result[r][1].success = DeliverySuccess(heard[r][Len(heard[r])].resp)
            /\ PlainMessage(d) => result[r][1].hasReply = (ctx # None)

\* C16: with several events in flight every step belongs to one handler
\* and leaves everything of the other handlers as it was, and after every
\* step the reply context, the webhook post and the result of each handler
\* are a function of its own payload and of the answers to its own
\* requests.
C16_Independent ==
  /\ [](\A r \in Reqs : OwnOutcome(r))
  /\ [][\A r \in Reqs :
          Slot(r)' # Slot(r) => \A q \in Reqs \ {r} : Slot(q)' = Slot(q)]_vars

\* Two messages in flight at once, answered differently by the history
\* API: one is delivered with a reply context while the other, still
\* awaiting its delivery, has none.
C16_Witness ==
  \E r, q \in Reqs :
    /\ r # q /\ pc[r] = "returned" /\ pc[q] = "deliver"
    /\ data[r] = data[q] /\ PlainMessage(Msg(r))
    /\ replyContext[r] # None /\ replyContext[q] = None
    /\ HistoryHeard(q) # <<>>
    /\ Len(heard[q]) < Len(heard[r])


\* C21: when every request of an event is answered, the handler of the
\* event returns a result and the server writes a response: the exchange
\* reaches the point where the response is written with a result returned.
C21_ReturnsAndResponds ==
  \A r \in Reqs : Active(r) ~> (pc[r] = "responded" /\ result[r] # None)

\* The part of C21 that does not depend on how the handler ends: under the
\* same premise the server writes a response to every event, and a handler
\* that has not ended and awaits no unanswered request can take its next
\* step.
ResponseAlwaysWritten ==
  /\ \A r \in Reqs : Active(r) ~> (pc[r] = "responded")
  /\ [](\A r \in Reqs :
          (pc[r] \in {"fetch50", "fetch20", "deliver", "react"} /\ Settled(r)) =>
            ENABLED Continue(r))


\* C22: what the bridge posted is never forwarded again. The handler of a
\* callback with sender_type 'bot' makes no call and has no request in
\* flight; sendToGroupMe is only ever in flight for a message a person
\* wrote in the Discord channel, and a webhook post only for a message a
\* person wrote in the GroupMe group; and whatever callbacks and events
\* follow, no person's message is posted to the other chat more than once.
C22_NoRelayLoop ==
  /\ \A o \in Humans :
       /\ relay.posts[o] <= 1
       /\ relay.from[o] = "none" => relay.posts[o] = 0
  /\ \A r \in Reqs :
       /\ (Active(r) /\ FromBot(Msg(r))) => calls[r] = <<>> /\ net[r] = None
       /\ (net[r] # None /\ net[r][1].req.to = "discord") =>
            relay.from[OriginOf(Msg(r))] = "groupme"
  /\ relay.discord # None => relay.from[relay.discord[1].origin] = "discord"

\* A message was written on each side, each was posted once to the other
\* chat, and the callback and the event of those two posts have been
\* taken and answered: nothing is left on its way.
C22_Witness ==
  /\ \E o \in Humans : relay.from[o] = "groupme"
  /\ \E o \in Humans : relay.from[o] = "discord"
  /\ \A o \in Humans : relay.posts[o] = 1
  /\ relay.callbacks = {} /\ relay.events = {} /\ relay.discord = None
  /\ \A r \in Reqs : pc[r] = "idle"

====
